---------------------------- MODULE Spec2Model ----------------------------
(* Expense tracker (src/main.py): one SQLite table `expenses` and the five *)
(* tools add_expense, list_expenses, update_expense, delete_expense and    *)
(* summarize_expenses.                                                     *)
(*                                                                         *)
(* Representation.                                                         *)
(*  - A row is a record [id, date, amount, category, subcategory, note].   *)
(*  - An amount is an integer number of cents (45.50 is 4550).             *)
(*  - A calendar day is its proleptic Gregorian ordinal (date.toordinal).  *)
(*  - The text strftime("%Y-%m-%d") writes is held as the number YYYYMMDD: *)
(*    for the fixed-width, zero-padded text, SQLite's TEXT comparison and   *)
(*    the comparison of these numbers agree.                               *)
(*  - Argument texts (dates, date_range) are drawn from small sets; what    *)
(*    dateutil's parser and str.lower/strip/isdigit make of each text is a  *)
(*    table over those texts.                                              *)
EXTENDS Integers, Sequences, FiniteSets, TLC

VARIABLES
    table,      \* the rows of table expenses
    seq,        \* sqlite_sequence: the largest id AUTOINCREMENT ever gave
    now,        \* datetime.now(), as a day ordinal
    last,       \* the most recent completed call: its arguments and result
    assigned,   \* history: the ids INSERT returned, in order
    removed,    \* history: the ids DELETE removed
    procs,      \* in-flight update/delete invocations (concurrent runs)
    base        \* the table when the in-flight invocations were started

vars == <<table, seq, now, last, assigned, removed, procs, base>>

----------------------------------------------------------------------------
(* The calendar, as datetime computes it.                                  *)

IsLeap(y) == (y % 4 = 0) /\ ((y % 100 # 0) \/ (y % 400 = 0))

\* _DAYS_IN_MONTH, with February's 29th in a leap year
DaysInMonthOf(leap, m) ==
    IF m = 2 THEN (IF leap THEN 29 ELSE 28)
    ELSE IF m \in {4, 6, 9, 11} THEN 30 ELSE 31

DaysInMonth(y, m) == DaysInMonthOf(IsLeap(y), m)

DaysBeforeYear(y) ==
    LET p == y - 1 IN p * 365 + (p \div 4) - (p \div 100) + (p \div 400)

\* _DAYS_BEFORE_MONTH[m] + (m > 2 and leap)
RECURSIVE DaysBeforeMonthOf(_, _)
DaysBeforeMonthOf(leap, m) ==
    IF m = 1 THEN 0
    ELSE DaysBeforeMonthOf(leap, m - 1) + DaysInMonthOf(leap, m - 1)

DaysBeforeMonth(y, m) == DaysBeforeMonthOf(IsLeap(y), m)

\* date(y, m, d).toordinal()
Ymd2Ord(y, m, d) == DaysBeforeYear(y) + DaysBeforeMonth(y, m) + d

\* date.fromordinal(n), as a record [y, m, d] (datetime._ord2ymd)
Ord2Ymd(n) ==
    LET n0   == n - 1
        n400 == n0 \div 146097
        r400 == n0 % 146097
        n100 == r400 \div 36524
        r100 == r400 % 36524
        n4   == r100 \div 1461
        r4   == r100 % 1461
        n1   == r4 \div 365
        r1   == r4 % 365
        year == n400 * 400 + 1 + n100 * 100 + n4 * 4 + n1
        leap == (n1 = 3) /\ ((n4 # 24) \/ (n100 = 3))
        mon0 == (r1 + 50) \div 32
        pre0 == DaysBeforeMonthOf(leap, mon0)
        mon  == IF pre0 > r1 THEN mon0 - 1 ELSE mon0
        pre  == DaysBeforeMonthOf(leap, mon)
    IN  IF n1 = 4 \/ n100 = 4
        THEN [y |-> year - 1, m |-> 12, d |-> 31]
        ELSE [y |-> year, m |-> mon, d |-> r1 - pre + 1]

\* A bug: isoweekday() % 7, which makes Sunday 0
WeekdayFromSunday(n) == n % 7

\* date.weekday(): Monday is 0
Weekday(n) == (n + 6) % 7

\* strftime("%Y-%m-%d") of a [y, m, d]
Strftime(c) == c.y * 10000 + c.m * 100 + c.d

\* strftime("%Y-%m-%d") of a day ordinal
Fmt(n) == Strftime(Ord2Ymd(n))


----------------------------------------------------------------------------
(* Date texts and what parser.parse(text, fuzzy=True) makes of them.       *)
(* dateutil reads absolute dates in many layouts and has no word for a     *)
(* relative day: in "today" and "garbage" it finds no date token, skips    *)
(* the word (fuzzy) and raises ParserError("String does not contain a      *)
(* date"); the empty text raises the same.                                 *)

ParserTable ==
    ("2025-03-14" :> [y |-> 2025, m |-> 3, d |-> 14]) @@
    ("Mar 15, 2025" :> [y |-> 2025, m |-> 3, d |-> 15]) @@
    ("2025-02-10" :> [y |-> 2025, m |-> 2, d |-> 10]) @@
    ("10 Feb 2025" :> [y |-> 2025, m |-> 2, d |-> 10])

\* parser.parse(text, fuzzy=True): [ok, ymd], ok = FALSE for ParserError
ParseDate(text) ==
    IF text \in DOMAIN ParserTable
    THEN [ok |-> TRUE, ymd |-> ParserTable[text]]
    ELSE [ok |-> FALSE, ymd |-> [y |-> 0, m |-> 0, d |-> 0]]

\* parser.parse(text, fuzzy=True).strftime("%Y-%m-%d")
FormatDate(text) == Strftime(ParseDate(text).ymd)

----------------------------------------------------------------------------
(* The table.                                                              *)

Ids(t) == {r.id : r \in t}

Max(S) == CHOOSE x \in S : \A y \in S : y <= x

Range(s) == {s[i] : i \in DOMAIN s}

\* A bug AUTOINCREMENT exists to prevent: the rowid of a plain
\* INTEGER PRIMARY KEY, one more than the largest rowid now in the table.
NextRowidOfPlainKey(t, s) == Max(Ids(t) \cup {0}) + 1

\* INTEGER PRIMARY KEY AUTOINCREMENT: one more than the largest rowid the
\* table ever held (sqlite_sequence), never a rowid used before.
NextRowid(t, s) == Max(Ids(t) \cup {s}) + 1

\* SELECT ... FROM expenses WHERE id = ?  (fetchone: the set is empty or one row)
Lookup(t, id) == {r \in t : r.id = id}

\* The SET list update_expense builds: the fields it will overwrite.
UpdateFields(a) ==
    (IF a.date # "" THEN {"date"} ELSE {}) \cup
    (IF a.amount > 0 THEN {"amount"} ELSE {}) \cup
    (IF a.category # "" THEN {"category"} ELSE {}) \cup
    (IF a.subcategory # "" THEN {"subcategory"} ELSE {}) \cup
    (IF a.note # "" THEN {"note"} ELSE {})

\* A bug: "if subcategory is not None" alone, so that an empty subcategory
\* is written too.
UpdatedRowEmptySubcategoryWritten(r, a) ==
    [id          |-> r.id,
     date        |-> IF a.date # "" THEN FormatDate(a.date) ELSE r.date,
     amount      |-> IF a.amount > 0 THEN a.amount ELSE r.amount,
     category    |-> IF a.category # "" THEN a.category ELSE r.category,
     subcategory |-> a.subcategory,
     note        |-> IF a.note # "" THEN a.note ELSE r.note]

\* One row after UPDATE expenses SET <the fields> WHERE id = ?
UpdatedRow(r, a) ==
    [id          |-> r.id,
     date        |-> IF a.date # "" THEN FormatDate(a.date) ELSE r.date,
     amount      |-> IF a.amount > 0 THEN a.amount ELSE r.amount,
     category    |-> IF a.category # "" THEN a.category ELSE r.category,
     subcategory |-> IF a.subcategory # "" THEN a.subcategory ELSE r.subcategory,
     note        |-> IF a.note # "" THEN a.note ELSE r.note]

\* The table after UPDATE expenses SET ... WHERE id = ?
UpdateRows(t, id, a) ==
    {IF r.id = id THEN UpdatedRow(r, a) ELSE r : r \in t}

\* A bug: the DELETE is never committed and is rolled back with the connection.
DeleteRowsUncommitted(t, id) == t

\* The table after DELETE FROM expenses WHERE id = ? and commit
DeleteRows(t, id) == {r \in t : r.id # id}

NoCall == [op |-> "none", arg |-> <<>>, kind |-> "none", out |-> <<>>]

----------------------------------------------------------------------------
(* add_expense                                                             *)

AddExpense(date, amount, category, subcategory, note) ==
    LET arg == [date |-> date, amount |-> amount, category |-> category,
                subcategory |-> subcategory, note |-> note]
    IN  IF ~ParseDate(date).ok
        THEN \* except (ValueError, parser.ParserError)
             /\ last' = [op |-> "add", arg |-> arg, kind |-> "DateError",
                         out |-> <<>>]
             /\ UNCHANGED <<table, seq, assigned, removed>>
        ELSE LET id  == NextRowid(table, seq)
                 row == [id |-> id, date |-> FormatDate(date),
                         amount |-> amount, category |-> category,
                         subcategory |-> subcategory, note |-> note]
             IN  /\ table' = table \cup {row}
                 /\ seq' = id
                 /\ assigned' = Append(assigned, id)
                 /\ last' = [op |-> "add", arg |-> arg, kind |-> "ok",
                             out |-> row]
                 /\ UNCHANGED removed

----------------------------------------------------------------------------
(* update_expense                                                          *)

\* A bug: a date that does not parse is skipped and the other fields written.
UpdatePlanDateSkipped(a) ==
    IF UpdateFields(a) \ {"date"} = {} THEN "NoFields" ELSE "write"

\* What the code between the first SELECT and the UPDATE decides for the row
\* the SELECT found: "DateError", "NoFields" or "write"
UpdatePlan(a) ==
    IF a.date # "" /\ ~ParseDate(a.date).ok THEN "DateError"
    ELSE IF UpdateFields(a) = {} THEN "NoFields"
    ELSE "write"

\* One invocation run alone on table t: [kind, out, table]
UpdateAlone(t, a) ==
    LET expense == Lookup(t, a.id)
        t2 == UpdateRows(t, a.id, a)
    IN  IF expense = {}
        THEN [kind |-> "NotFound", out |-> <<>>, table |-> t]
        ELSE IF UpdatePlan(a) # "write"
        THEN \* except (ValueError, parser.ParserError), or the early return
             [kind |-> UpdatePlan(a), out |-> <<>>, table |-> t]
        ELSE [kind |-> "ok",
              out |-> [old |-> CHOOSE r \in expense : TRUE,
                       updated |-> CHOOSE r \in Lookup(t2, a.id) : TRUE],
              table |-> t2]

UpdateExpense(id, date, amount, category, subcategory, note) ==
    LET arg == [id |-> id, date |-> date, amount |-> amount,
                category |-> category, subcategory |-> subcategory,
                note |-> note]
        res == UpdateAlone(table, arg)
    IN  /\ table' = res.table
        /\ last' = [op |-> "update", arg |-> arg, kind |-> res.kind,
                    out |-> res.out]
        /\ UNCHANGED <<seq, assigned, removed>>

----------------------------------------------------------------------------
(* delete_expense                                                          *)

\* One invocation run alone on table t: [kind, out, table]
DeleteAlone(t, a) ==
    LET expense == Lookup(t, a.id)
    IN  IF expense = {}
        THEN [kind |-> "NotFound", out |-> <<>>, table |-> t]
        ELSE [kind |-> "ok", out |-> CHOOSE r \in expense : TRUE,
              table |-> DeleteRows(t, a.id)]

DeleteExpense(id) ==
    LET res == DeleteAlone(table, [id |-> id])
    IN  /\ table' = res.table
        /\ removed' = IF res.kind = "ok" THEN removed \cup {id} ELSE removed
        /\ last' = [op |-> "delete", arg |-> [id |-> id], kind |-> res.kind,
                    out |-> res.out]
        /\ UNCHANGED <<seq, assigned>>

----------------------------------------------------------------------------
(* date_range texts: what str.lower().strip(), the substring tests and the *)
(* digit filter make of each text the model passes.                        *)

\* date_range.lower().strip()
LowerStrip(text) ==
    CASE text = " Last Week " -> "last week"
      [] text = "LAST MONTH" -> "last month"
      [] text = "Last 7 Days" -> "last 7 days"
      [] OTHER -> text

\* "last" in text
HasLast(text) ==
    text \in {"last week", "last month", "last year", "last 7 days",
              "last 0 days", "last 30 days", "last days", "last call"}

\* "days" in text
HasDays(text) ==
    text \in {"last 7 days", "last 0 days", "last 30 days", "last days",
              "3 days ago"}

\* parsed_start = None / parsed_end = None: no bound
NoDate == 0

\* int(''.join(filter(str.isdigit, text))); -1 stands for the ValueError of int('')
DigitsOf(text) ==
    CASE text = "last 7 days" -> 7
      [] text = "last 0 days" -> 0
      [] text = "last 30 days" -> 30
      [] text = "3 days ago" -> 3
      [] OTHER -> -1

\* list_expenses: the date_range block, [start, end] of parsed_start/parsed_end
ResolveList(date_range, today) ==
    LET k == LowerStrip(date_range)
        c == Ord2Ymd(today)
    IN  IF date_range = "" THEN [start |-> NoDate, end |-> NoDate]
        ELSE IF k = "today" THEN [start |-> Fmt(today), end |-> Fmt(today)]
        ELSE IF k = "yesterday"
        THEN [start |-> Fmt(today - 1), end |-> Fmt(today - 1)]
        ELSE IF k = "this week"
        THEN [start |-> Fmt(today - Weekday(today)), end |-> Fmt(today)]
        ELSE IF k = "last week"
        THEN LET start_of_last_week == today - (Weekday(today) + 7)
             IN  [start |-> Fmt(start_of_last_week),
                  end |-> Fmt(start_of_last_week + 6)]
        ELSE IF k = "this month"
        THEN [start |-> Strftime([c EXCEPT !.d = 1]), end |-> Fmt(today)]
        ELSE IF k = "last month"
        THEN LET first_of_this_month == Ymd2Ord(c.y, c.m, 1)
                 last_month_end == Ord2Ymd(first_of_this_month - 1)
             IN  [start |-> Strftime([last_month_end EXCEPT !.d = 1]),
                  end |-> Strftime(last_month_end)]
        ELSE IF k = "this year"
        THEN [start |-> Strftime([c EXCEPT !.m = 1, !.d = 1]),
              end |-> Fmt(today)]
        ELSE IF k = "last year"
        THEN [start |-> (c.y - 1) * 10000 + 101,
              end |-> (c.y - 1) * 10000 + 1231]
        ELSE IF HasLast(k) /\ HasDays(k) /\ DigitsOf(k) >= 0
        THEN [start |-> Fmt(today - DigitsOf(k)), end |-> Fmt(today)]
        ELSE [start |-> NoDate, end |-> NoDate]

\* summarize_expenses: its own copy of the date_range block
ResolveSummarize(date_range, today) ==
    LET k == LowerStrip(date_range)
        c == Ord2Ymd(today)
    IN  IF date_range = "" THEN [start |-> NoDate, end |-> NoDate]
        ELSE IF k = "today" THEN [start |-> Fmt(today), end |-> Fmt(today)]
        ELSE IF k = "yesterday"
        THEN [start |-> Fmt(today - 1), end |-> Fmt(today - 1)]
        ELSE IF k = "this week"
        THEN [start |-> Fmt(today - Weekday(today)), end |-> Fmt(today)]
        ELSE IF k = "last week"
        THEN LET start_of_last_week == today - (Weekday(today) + 7)
             IN  [start |-> Fmt(start_of_last_week),
                  end |-> Fmt(start_of_last_week + 6)]
        ELSE IF k = "this month"
        THEN [start |-> Strftime([c EXCEPT !.d = 1]), end |-> Fmt(today)]
        ELSE IF k = "last month"
        THEN LET first_of_this_month == Ymd2Ord(c.y, c.m, 1)
                 last_month_end == Ord2Ymd(first_of_this_month - 1)
             IN  [start |-> Strftime([last_month_end EXCEPT !.d = 1]),
                  end |-> Strftime(last_month_end)]
        ELSE IF k = "this year"
        THEN [start |-> Strftime([c EXCEPT !.m = 1, !.d = 1]),
              end |-> Fmt(today)]
        ELSE IF k = "last year"
        THEN [start |-> (c.y - 1) * 10000 + 101,
              end |-> (c.y - 1) * 10000 + 1231]
        ELSE IF HasLast(k) /\ HasDays(k) /\ DigitsOf(k) >= 0
        THEN [start |-> Fmt(today - DigitsOf(k)), end |-> Fmt(today)]
        ELSE [start |-> NoDate, end |-> NoDate]

\* A bug: a start_date or end_date that does not parse is taken as absent.
ExplicitDatesUnparseableAsAbsent(r, start_date, end_date) ==
    LET doStart == start_date # "" /\ r.start = NoDate /\ ParseDate(start_date).ok
        doEnd   == end_date # "" /\ r.end = NoDate /\ ParseDate(end_date).ok
    IN  [raised |-> FALSE,
         start  |-> IF doStart THEN FormatDate(start_date) ELSE r.start,
         end    |-> IF doEnd THEN FormatDate(end_date) ELSE r.end]

\* "if start_date and not parsed_start: parsed_start = parser.parse(...)" and
\* the same for end_date: [raised, start, end]; raised = TRUE when a parse
\* that was attempted raised ParserError.
ExplicitDates(r, start_date, end_date) ==
    LET doStart == start_date # "" /\ r.start = NoDate
        doEnd   == end_date # "" /\ r.end = NoDate
    IN  [raised |-> \/ (doStart /\ ~ParseDate(start_date).ok)
                    \/ (doEnd /\ ~ParseDate(end_date).ok),
         start  |-> IF doStart THEN FormatDate(start_date) ELSE r.start,
         end    |-> IF doEnd THEN FormatDate(end_date) ELSE r.end]

----------------------------------------------------------------------------
(* list_expenses                                                           *)

\* A bug: category compared without regard to case (COLLATE NOCASE)
ListWhereCategoryNoCase(t, category, start, end) ==
    LET Fold(c) == IF c = "Food" THEN "food" ELSE c
    IN  {r \in t : /\ (category # "" => Fold(r.category) = Fold(category))
                   /\ (start # NoDate => r.date >= start)
                   /\ (end # NoDate => r.date <= end)}

\* WHERE 1=1 [AND category = ?] [AND date >= ?] [AND date <= ?]
ListWhere(t, category, start, end) ==
    {r \in t : /\ (category # "" => r.category = category)
               /\ (start # NoDate => r.date >= start)
               /\ (end # NoDate => r.date <= end)}

\* r comes before q under ORDER BY date DESC, id DESC
Before(r, q) == r.date > q.date \/ (r.date = q.date /\ r.id > q.id)

\* A bug: ORDER BY date DESC alone, rows of one day in rowid order.
RECURSIVE OrderByDateDescOnly(_)
OrderByDateDescOnly(S) ==
    IF S = {} THEN <<>>
    ELSE LET first == CHOOSE r \in S : \A q \in S \ {r} :
                          r.date > q.date \/ (r.date = q.date /\ r.id < q.id)
         IN  <<first>> \o OrderByDateDescOnly(S \ {first})

\* ORDER BY date DESC, id DESC
RECURSIVE OrderByDateIdDesc(_)
OrderByDateIdDesc(S) ==
    IF S = {} THEN <<>>
    ELSE LET first == CHOOSE r \in S : \A q \in S \ {r} : Before(r, q)
         IN  <<first>> \o OrderByDateIdDesc(S \ {first})

\* [LIMIT ?], appended only "if limit > 0"
Limit(rows, limit) ==
    IF limit > 0 /\ limit < Len(rows) THEN SubSeq(rows, 1, limit) ELSE rows

RECURSIVE SumAmounts(_)
SumAmounts(rows) ==
    IF rows = <<>> THEN 0 ELSE Head(rows).amount + SumAmounts(Tail(rows))

\* What list_expenses returns when it runs on table t on day today
ListOutcome(t, today, limit, category, date_range, start_date, end_date) ==
    LET b == ExplicitDates(ResolveList(date_range, today), start_date, end_date)
        expenses == Limit(OrderByDateIdDesc(
                        ListWhere(t, category, b.start, b.end)), limit)
    IN  IF b.raised
        THEN \* except Exception as e: "Error listing expenses: ..."
             [kind |-> "Exception", out |-> [cause |-> "ParserError"]]
        ELSE IF expenses = <<>>
        THEN [kind |-> "Empty", out |-> [start |-> b.start, end |-> b.end]]
        ELSE [kind |-> "ok",
              out |-> [rows |-> expenses, total |-> SumAmounts(expenses),
                       start |-> b.start, end |-> b.end]]

ListExpenses(limit, category, date_range, start_date, end_date) ==
    LET arg == [limit |-> limit, category |-> category,
                date_range |-> date_range, start_date |-> start_date,
                end_date |-> end_date]
        res == ListOutcome(table, now, limit, category, date_range,
                           start_date, end_date)
    IN  /\ UNCHANGED <<table, seq, assigned, removed>>
        /\ last' = [op |-> "list", arg |-> arg, kind |-> res.kind,
                    out |-> res.out]

----------------------------------------------------------------------------
(* summarize_expenses                                                      *)

\* A bug: "AND date < ?" for the end of the period
SummaryWhereCategoryBeforeEnd(t, category, start, end) ==
    {r \in t : /\ r.category = category
               /\ (start # NoDate => r.date >= start)
               /\ (end # NoDate => r.date < end)}

\* WHERE category = ? [AND date >= ?] [AND date <= ?]
SummaryWhereCategory(t, category, start, end) ==
    {r \in t : /\ r.category = category
               /\ (start # NoDate => r.date >= start)
               /\ (end # NoDate => r.date <= end)}

\* WHERE 1=1 [AND date >= ?] [AND date <= ?]
SummaryWhereAll(t, start, end) ==
    {r \in t : /\ (start # NoDate => r.date >= start)
               /\ (end # NoDate => r.date <= end)}

RECURSIVE SumOfRows(_)
SumOfRows(S) ==
    IF S = {} THEN 0
    ELSE LET r == CHOOSE x \in S : TRUE IN r.amount + SumOfRows(S \ {r})

\* A bug: the rows without a subcategory are left out of the breakdown.
GroupByNamedSubcategory(rows) ==
    {[key   |-> k,
      total |-> SumOfRows({r \in rows : r.subcategory = k}),
      count |-> Cardinality({r \in rows : r.subcategory = k})]
        : k \in {r.subcategory : r \in rows} \ {""}}

\* SELECT subcategory, SUM(amount), COUNT(*) ... GROUP BY subcategory
GroupBySubcategory(rows) ==
    {[key   |-> k,
      total |-> SumOfRows({r \in rows : r.subcategory = k}),
      count |-> Cardinality({r \in rows : r.subcategory = k})]
        : k \in {r.subcategory : r \in rows}}

\* SELECT category, SUM(amount), COUNT(*) ... GROUP BY category
GroupByCategory(rows) ==
    {[key   |-> k,
      total |-> SumOfRows({r \in rows : r.category = k}),
      count |-> Cardinality({r \in rows : r.category = k})]
        : k \in {r.category : r \in rows}}

\* ORDER BY total DESC: every order of the groups SQL allows (it leaves the
\* order of groups with equal totals open)
OrderByTotalDesc(groups) ==
    LET n == Cardinality(groups)
    IN  {s \in [1..n -> groups] :
            /\ \A i, j \in 1..n : i # j => s[i] # s[j]
            /\ \A i \in 1..n : \A j \in 1..n : i < j => s[i].total >= s[j].total}

\* sum(row[1] for row in results)
RECURSIVE GrandTotal(_)
GrandTotal(results) ==
    IF results = <<>> THEN 0
    ELSE Head(results).total + GrandTotal(Tail(results))

\* f"{percentage:.1f}" of percentage = total / grand_total * 100, in tenths
\* of a percent, for grand_total > 0: the nearest tenth; where the quotient
\* lies exactly between two tenths the float's last bit decides, so both are
\* possible outcomes.
ShownTenths(total, grand_total) ==
    LET q == (total * 1000) \div grand_total
        r == (total * 1000) % grand_total
    IN  IF 2 * r < grand_total THEN {q}
        ELSE IF 2 * r > grand_total THEN {q + 1}
        ELSE {q, q + 1}

\* "(total / grand_total * 100) if grand_total > 0 else 0", as printed
Percentages(total, grand_total) ==
    IF grand_total > 0 THEN ShownTenths(total, grand_total) ELSE {0}

\* One line of the report, with each percentage that may be printed for it
LinesOf(g, grand_total) ==
    {[key |-> g.key, total |-> g.total, count |-> g.count, tenths |-> t]
        : t \in Percentages(g.total, grand_total)}

\* The lines of the report, in the order of results
ReportLines(results, grand_total) ==
    {s \in [1..Len(results) ->
                UNION {LinesOf(g, grand_total) : g \in Range(results)}] :
        \A i \in 1..Len(results) : s[i] \in LinesOf(results[i], grand_total)}

SummarizeExpenses(date_range, start_date, end_date, category) ==
    LET arg == [date_range |-> date_range, start_date |-> start_date,
                end_date |-> end_date, category |-> category]
        b == ExplicitDates(ResolveSummarize(date_range, now),
                           start_date, end_date)
        groups == IF category # ""
                  THEN GroupBySubcategory(
                           SummaryWhereCategory(table, category, b.start, b.end))
                  ELSE GroupByCategory(SummaryWhereAll(table, b.start, b.end))
    IN  /\ UNCHANGED <<table, seq, assigned, removed>>
        /\ IF b.raised
           THEN \* except Exception as e: "Error summarizing expenses: ..."
                last' = [op |-> "summarize", arg |-> arg, kind |-> "Exception",
                         out |-> [cause |-> "ParserError"]]
           ELSE IF groups = {}
           THEN last' = [op |-> "summarize", arg |-> arg, kind |-> "Empty",
                         out |-> [start |-> b.start, end |-> b.end]]
           ELSE \E results \in OrderByTotalDesc(groups) :
                  \E lines \in ReportLines(results, GrandTotal(results)) :
                    last' = [op |-> "summarize", arg |-> arg, kind |-> "ok",
                             out |-> [groups |-> lines,
                                      grand_total |-> GrandTotal(results),
                                      start |-> b.start, end |-> b.end]]


----------------------------------------------------------------------------
(* Calls made one after another: the life cycle of the rows.               *)

\* At most this many rows are ever inserted in a run of Spec
MaxId == 3

\* list_expenses(limit: int = 10, ...)
DefaultLimit == 10

Today == Ymd2Ord(2025, 3, 15)

Init ==
    /\ table = {}
    /\ seq = 0
    /\ now = Today
    /\ last = NoCall
    /\ assigned = <<>>
    /\ removed = {}
    /\ procs = <<>>
    /\ base = {}

\* The add calls of Spec, as <<date, amount, category>>
AddCalls ==
    {<<"today", 1000, "Food">>, <<"2025-03-14", 1000, "Food">>,
     <<"2025-03-14", -500, "">>}

Add ==
    \E c \in AddCalls :
        /\ seq < MaxId \/ ~ParseDate(c[1]).ok
        /\ AddExpense(c[1], c[2], c[3], "", "")
        /\ UNCHANGED <<now, procs, base>>

\* The update calls of Spec, as <<date, amount, category>>
UpdateCalls ==
    {<<"", 0, "">>, <<"garbage", 0, "">>, <<"Mar 15, 2025", 0, "">>,
     <<"", 2500, "Travel">>}

Update ==
    \E id \in 1..MaxId, c \in UpdateCalls :
        /\ UpdateExpense(id, c[1], c[2], c[3], "", "")
        /\ UNCHANGED <<now, procs, base>>

Delete ==
    \E id \in 1..MaxId :
        /\ DeleteExpense(id)
        /\ UNCHANGED <<now, procs, base>>

List ==
    \E limit \in {0, DefaultLimit}, category \in {"", "Food"} :
        /\ ListExpenses(limit, category, "", "", "")
        /\ UNCHANGED <<now, procs, base>>

Next == Add \/ Update \/ Delete \/ List

Spec == Init /\ [][Next]_vars

----------------------------------------------------------------------------
(* C1. After any sequence of add, update and delete calls every row keeps  *)
(* the id it was given when it was inserted (an update never changes an    *)
(* id), the ids given are strictly increasing, and an id once given is     *)
(* never given again, also after the row holding it, the highest-numbered  *)
(* one included, was deleted.                                              *)

StrictlyIncreasing(s) == \A i, j \in DOMAIN s : i < j => s[i] < s[j]

IdsAreTheAssignedOnes ==
    /\ StrictlyIncreasing(assigned)
    /\ Ids(table) \subseteq Range(assigned)
    /\ Cardinality(Ids(table)) = Cardinality(table)

IdsChangeOnlyByInsertAndDelete ==
    /\ Len(assigned') = Len(assigned) => Ids(table') \subseteq Ids(table)
    /\ Len(assigned') > Len(assigned) =>
          /\ assigned' = Append(assigned, assigned'[Len(assigned')])
          /\ Ids(table') = Ids(table) \cup {assigned'[Len(assigned')]}
          /\ assigned'[Len(assigned')] \notin Range(assigned) \cup removed
    /\ last'.op = "update" => Ids(table') = Ids(table)

C1_IdentityNeverReused ==
    [](IdsAreTheAssignedOnes) /\ [][IdsChangeOnlyByInsertAndDelete]_vars

\* The row with the highest id was deleted and the add that followed got a
\* new id.
C1_Witness ==
    /\ last.op = "add" /\ last.kind = "ok"
    /\ last.out.id - 1 \in removed
    /\ last.out.id \in Ids(table)

----------------------------------------------------------------------------
(* C3. After delete(i) has succeeded, every later lookup of i (the check   *)
(* of update or delete, or a list) reports it as not found, in every later *)
(* state; and delete(i) of an id that is not in the table returns the      *)
(* not-found error and leaves the table as it was.                         *)

DeletedStaysGone ==
    /\ \A i \in removed : Lookup(table, i) = {}
    /\ (last.op = "update" /\ last.arg.id \in removed) => last.kind = "NotFound"
    /\ (last.op = "list" /\ last.kind = "ok") =>
          \A k \in DOMAIN last.out.rows : last.out.rows[k].id \notin removed

DeleteOfAbsentIdIsNotFound ==
    (last'.op = "delete" /\ last'.arg.id \notin Ids(table)) =>
        /\ last'.kind = "NotFound"
        /\ table' = table /\ seq' = seq /\ removed' = removed

C3_DeleteThenNotFound ==
    [](DeletedStaysGone) /\ [][DeleteOfAbsentIdIsNotFound]_vars

\* A second delete of an id that was deleted before has answered not found.
C3_Witness ==
    /\ last.op = "delete" /\ last.kind = "NotFound"
    /\ last.arg.id \in removed
    /\ table # {}

----------------------------------------------------------------------------
(* C10. In every state reachable by add, update and delete calls with any  *)
(* arguments, every stored row has a non-negative amount and a non-empty   *)
(* category.                                                               *)

C10_StoredRowsValid ==
    \A r \in table : r.amount >= 0 /\ r.category # ""

----------------------------------------------------------------------------
(* Updates with every subset of the fields supplied, on rows inserted with *)
(* all five fields set.                                                    *)

\* At most this many rows are inserted in a run of SpecUpdate
MaxUpdRows == 2

AddFull ==
    /\ seq < MaxUpdRows
    /\ AddExpense("2025-03-14", 1000, "Food", "Groceries", "lunch")
    /\ UNCHANGED <<now, procs, base>>

UpdateAnySubset ==
    \E id \in 1..MaxUpdRows, date \in {"", "Mar 15, 2025"}, amount \in {0, 2500},
       category \in {"", "Food"}, subcategory \in {"", "Dining"},
       note \in {"", "lunch"} :
        /\ UpdateExpense(id, date, amount, category, subcategory, note)
        /\ UNCHANGED <<now, procs, base>>

NextUpdate == AddFull \/ UpdateAnySubset

SpecUpdate == Init /\ [][NextUpdate]_vars

----------------------------------------------------------------------------
(* C2. A successful update(id, ...) leaves unchanged every field of that   *)
(* row that was not supplied, or was supplied as the empty string (date,   *)
(* category, subcategory, note) or as zero (amount), and leaves every      *)
(* other row of the table unchanged.                                       *)

UnsuppliedFieldsKept(r, u, a) ==
    /\ a.date = "" => u.date = r.date
    /\ a.amount = 0 => u.amount = r.amount
    /\ a.category = "" => u.category = r.category
    /\ a.subcategory = "" => u.subcategory = r.subcategory
    /\ a.note = "" => u.note = r.note

UpdateFrame ==
    (last'.op = "update" /\ last'.kind = "ok") =>
        /\ Cardinality(table') = Cardinality(table)
        /\ \A r \in table :
              IF r.id = last'.arg.id
              THEN \E u \in table' :
                      u.id = r.id /\ UnsuppliedFieldsKept(r, u, last'.arg)
              ELSE r \in table'
        /\ seq' = seq

C2_UpdateKeepsUnsuppliedFields == [][UpdateFrame]_vars

\* An update that supplied a date alone changed the date of one of two rows
\* and kept that row's subcategory.
C2_Witness ==
    /\ last.op = "update" /\ last.kind = "ok"
    /\ Cardinality(table) >= 2
    /\ last.arg.date # "" /\ last.arg.subcategory = "" /\ last.arg.amount = 0
    /\ last.out.updated.date # last.out.old.date
    /\ last.out.updated.subcategory = "Groceries"
    /\ last.out.updated \in table

----------------------------------------------------------------------------
(* Queries: list and summarize calls on tables of a few rows.              *)

\* At most this many rows are inserted in a run of SpecQuery
MaxQueryRows == 3

\* The rows SpecQuery inserts, as <<date, amount, category, subcategory>>
QueryRows ==
    {<<"2025-03-14", 1000, "Food", "">>,
     <<"2025-03-14", 1000, "Food", "Groceries">>,
     <<"Mar 15, 2025", 1000, "Food", "Dining">>,
     <<"Mar 15, 2025", 1000, "Travel", "">>,
     <<"Mar 15, 2025", 0, "Food", "Groceries">>,
     <<"2025-03-14", 0, "Travel", "">>}

\* The filters SpecQuery passes, as <<date_range, start_date, end_date>>
QueryDates ==
    {<<"", "", "">>,
     <<"today", "", "">>,
     <<"yesterday", "garbage", "">>,
     <<"fortnight", "", "">>,
     <<"fortnight", "Mar 15, 2025", "">>,
     <<"", "garbage", "">>,
     <<"", "", "garbage">>,
     <<"", "2025-03-14", "">>,
     <<"", "", "2025-03-14">>,
     <<"", "2025-03-14", "Mar 15, 2025">>}

\* The caller has the answer of the query it made
Answered == last.op \in {"list", "summarize"}

AddRow ==
    \E c \in QueryRows :
        /\ ~Answered
        /\ seq < MaxQueryRows
        /\ AddExpense(c[1], c[2], c[3], c[4], "")
        /\ UNCHANGED <<now, procs, base>>

DeleteRow ==
    \E id \in 1..MaxQueryRows :
        /\ ~Answered
        /\ DeleteExpense(id)
        /\ UNCHANGED <<now, procs, base>>

ListQuery ==
    \E limit \in {0, 1, 2, DefaultLimit}, category \in {"", "Food"},
       d \in QueryDates :
        /\ ~Answered
        /\ ListExpenses(limit, category, d[1], d[2], d[3])
        /\ UNCHANGED <<now, procs, base>>

SummarizeQuery ==
    \E category \in {"", "Food"}, d \in QueryDates :
        /\ ~Answered
        /\ SummarizeExpenses(d[1], d[2], d[3], category)
        /\ UNCHANGED <<now, procs, base>>

\* The caller takes the answer and goes on to its next call
TakeAnswer ==
    /\ Answered
    /\ last' = NoCall
    /\ UNCHANGED <<table, seq, now, assigned, removed, procs, base>>

NextQuery == AddRow \/ DeleteRow \/ ListQuery \/ SummarizeQuery \/ TakeAnswer

SpecQuery == Init /\ [][NextQuery]_vars

----------------------------------------------------------------------------
(* C5. For any table and any combination of filters the rows list returns  *)
(* are ordered by date descending and, among equal dates, by id            *)
(* descending; with limit = N > 0 they are the first min(N, number of      *)
(* matches) rows of that order, and with limit = 0 they are all the        *)
(* matching rows.                                                          *)

Min(a, b) == IF a < b THEN a ELSE b

DateDescThenIdDesc(r, q) ==
    r.date > q.date \/ (r.date = q.date /\ r.id > q.id)

\* The rows that pass the filters of the list call in last
ListMatches ==
    ListWhere(table, last.arg.category, last.out.start, last.out.end)

C5_ListOrderAndLimit ==
    /\ (last.op = "list" /\ last.kind = "ok") =>
          LET rows == last.out.rows
              n    == Len(rows)
          IN  /\ \A i, j \in 1..n : i < j => DateDescThenIdDesc(rows[i], rows[j])
              /\ Range(rows) \subseteq ListMatches
              /\ \A r \in ListMatches \ Range(rows) :
                    \A k \in 1..n : DateDescThenIdDesc(rows[k], r)
              /\ last.arg.limit > 0 =>
                    n = Min(last.arg.limit, Cardinality(ListMatches))
              /\ last.arg.limit = 0 => n = Cardinality(ListMatches)
    /\ (last.op = "list" /\ last.kind = "Empty") => ListMatches = {}

\* list(limit = 2) returned two rows of one day out of three matching rows.
C5_Witness ==
    /\ last.op = "list" /\ last.kind = "ok" /\ last.arg.limit = 2
    /\ Cardinality(ListMatches) = 3
    /\ Len(last.out.rows) = 2
    /\ last.out.rows[1].date = last.out.rows[2].date
    /\ last.out.rows[1].id > last.out.rows[2].id

----------------------------------------------------------------------------
(* C6. For every non-empty set of matching rows summarize reports one group *)
(* per distinct grouping key (category, or subcategory when a category is   *)
(* given); each group's sum and count are those of exactly the matching     *)
(* rows with that key; the grand total is the sum of the group sums and of  *)
(* all matching amounts; the group percentages add up to 100 when the grand *)
(* total is positive; and every percentage is 0 when the grand total is 0.  *)

\* The rows that pass the filters of the summarize call in last
SummaryMatches ==
    {r \in table :
        /\ (last.arg.category # "" => r.category = last.arg.category)
        /\ (last.out.start # NoDate => r.date >= last.out.start)
        /\ (last.out.end # NoDate => r.date <= last.out.end)}

KeyOf(r) == IF last.arg.category # "" THEN r.subcategory ELSE r.category

RECURSIVE SumOver(_, _, _)
SumOver(s, field, i) ==
    IF i > Len(s) THEN 0 ELSE s[i][field] + SumOver(s, field, i + 1)

Abs(x) == IF x < 0 THEN -x ELSE x

GroupsAreTheMatchesByKey ==
    LET g == last.out.groups
        n == Len(g)
    IN  /\ SummaryMatches # {}
        /\ {g[i].key : i \in 1..n} = {KeyOf(r) : r \in SummaryMatches}
        /\ \A i, j \in 1..n : i # j => g[i].key # g[j].key
        /\ \A i \in 1..n :
              LET rows == {r \in SummaryMatches : KeyOf(r) = g[i].key}
              IN  /\ g[i].total = SumOfRows(rows)
                  /\ g[i].count = Cardinality(rows)
        /\ last.out.grand_total = SumOver(g, "total", 1)
        /\ last.out.grand_total = SumOfRows(SummaryMatches)
        /\ last.out.grand_total = 0 => \A i \in 1..n : g[i].tenths = 0

\* The claim as made: the percentages of the report add up to 100.0
C6_PercentagesAddUpTo100 ==
    (last.op = "summarize" /\ last.kind = "ok") =>
        /\ GroupsAreTheMatchesByKey
        /\ last.out.grand_total > 0 =>
              SumOver(last.out.groups, "tenths", 1) = 1000

\* C6 as amended: the percentages, printed with one decimal, add up to 100
\* to within 0.05 for each group.
C6_PercentagesAddUpWithinRounding ==
    /\ (last.op = "summarize" /\ last.kind = "ok") =>
          /\ GroupsAreTheMatchesByKey
          /\ last.out.grand_total > 0 =>
                2 * Abs(SumOver(last.out.groups, "tenths", 1) - 1000)
                    <= Len(last.out.groups)
    /\ (last.op = "summarize" /\ last.kind = "Empty") => SummaryMatches = {}

\* A breakdown of one category into three subcategories, one of them the
\* empty one, with a positive total.
C6_Witness ==
    /\ last.op = "summarize" /\ last.kind = "ok"
    /\ last.arg.category = "Food"
    /\ Len(last.out.groups) = 3
    /\ last.out.grand_total > 0
    /\ \E i \in 1..3 : last.out.groups[i].key = ""
    /\ SumOver(last.out.groups, "tenths", 1) = 999

----------------------------------------------------------------------------
(* C8. In list and summarize, whatever the other arguments, a non-empty    *)
(* start_date or end_date that cannot be parsed makes the call return the  *)
(* date error, never a result computed as if the argument were absent; a   *)
(* date_range that is not recognized never produces an error and           *)
(* contributes no bound.                                                   *)

Unparseable(text) == text # "" /\ ~ParseDate(text).ok

C8_UnparseableDateIsAnError ==
    last.op \in {"list", "summarize"} =>
        /\ (Unparseable(last.arg.start_date) \/ Unparseable(last.arg.end_date))
              => (last.kind = "Exception" /\ last.out.cause = "ParserError")
        /\ (last.arg.date_range = "fortnight"
              /\ ~Unparseable(last.arg.start_date)
              /\ ~Unparseable(last.arg.end_date)) =>
                 /\ last.kind # "Exception"
                 /\ last.arg.start_date = "" => last.out.start = NoDate
                 /\ last.arg.end_date = "" => last.out.end = NoDate

\* The pair date_range gave the call in last, before start_date and end_date
KeywordPair ==
    IF last.op = "list" THEN ResolveList(last.arg.date_range, now)
    ELSE ResolveSummarize(last.arg.date_range, now)

\* C8 as amended: when date_range gave no pair (it is absent or not
\* recognized), a non-empty start_date or end_date that cannot be parsed
\* makes list and summarize return their error text with the parser's
\* message; when date_range gave a pair, start_date and end_date are not
\* parsed at all and the pair of the keyword is the filter.  Nothing else
\* makes the date handling fail, and a date_range that is not recognized
\* contributes no bound.
C8_UnparseableDateIsAnErrorUnlessKeywordResolves ==
    last.op \in {"list", "summarize"} =>
        LET bad == Unparseable(last.arg.start_date)
                      \/ Unparseable(last.arg.end_date)
            none == KeywordPair.start = NoDate /\ KeywordPair.end = NoDate
        IN  /\ (none /\ bad) =>
                  (last.kind = "Exception" /\ last.out.cause = "ParserError")
            /\ ~none => /\ last.kind # "Exception"
                        /\ last.out.start = KeywordPair.start
                        /\ last.out.end = KeywordPair.end
            /\ last.kind = "Exception" => (none /\ bad)
            /\ (last.arg.date_range = "fortnight" /\ ~bad) =>
                  /\ none
                  /\ last.arg.start_date = "" => last.out.start = NoDate
                  /\ last.arg.end_date = "" => last.out.end = NoDate

\* summarize fails on an end_date that is not a date
C8_Witness ==
    /\ last.op = "summarize"
    /\ last.arg.date_range = ""
    /\ Unparseable(last.arg.end_date)
    /\ last.kind = "Exception"

----------------------------------------------------------------------------
(* C7. Whatever rows the table holds, add(date = "today", category = c,    *)
(* ...) succeeds with an id i and a list(category = c) with its default    *)
(* arguments (limit 10, no dates) that follows includes row i; and once    *)
(* delete(i) has succeeded no list includes row i.                         *)

C7_AddedTodayIsListedUntilDeleted ==
    /\ (last.op = "add" /\ last.arg.date = "today"
          /\ last.arg.amount > 0 /\ last.arg.category # "") =>
          /\ last.kind = "ok"
          /\ LET res == ListOutcome(table, now, DefaultLimit,
                                    last.arg.category, "", "", "")
             IN  /\ res.kind = "ok"
                 /\ \E k \in DOMAIN res.out.rows :
                        res.out.rows[k].id = last.out.id
    /\ (last.op = "list" /\ last.kind = "ok") =>
          \A k \in DOMAIN last.out.rows : last.out.rows[k].id \notin removed

----------------------------------------------------------------------------
(* The date_range keywords, resolved on every day of a window that holds   *)
(* a leap February, two turns of the year and 2025-03-15.                  *)

\* The number of days in the window
WindowDays == 470

WindowStart == Ymd2Ord(2023, 12, 20)

RangeTexts ==
    {"today", "yesterday", "this week", " Last Week ", "last week",
     "this month", "LAST MONTH", "last month", "this year", "last year",
     "last 7 days", "Last 7 Days", "last 0 days", "last 30 days",
     "last days", "last call", "3 days ago", "fortnight"}

InitResolve ==
    /\ table = {}
    /\ seq = 0
    /\ now \in WindowStart..(WindowStart + WindowDays - 1)
    /\ last = NoCall
    /\ assigned = <<>>
    /\ removed = {}
    /\ procs = <<>>
    /\ base = {}

ListRange ==
    \E date_range \in RangeTexts :
        /\ ~Answered
        /\ ListExpenses(DefaultLimit, "", date_range, "", "")
        /\ UNCHANGED <<now, procs, base>>

SummarizeRange ==
    \E date_range \in RangeTexts :
        /\ ~Answered
        /\ SummarizeExpenses(date_range, "", "", "")
        /\ UNCHANGED <<now, procs, base>>

NextResolve == ListRange \/ SummarizeRange \/ TakeAnswer

SpecResolve == InitResolve /\ [][NextResolve]_vars

----------------------------------------------------------------------------
(* C9. For every day taken as "now" each recognized keyword resolves to    *)
(* the inclusive pair the spec names, with start <= end: this week =       *)
(* [Monday of now's week, now]; last week = [the Monday 7 days before      *)
(* that, the Sunday after it]; this month = [the 1st of now's month, now]; *)
(* last month = [first day, last day] of the previous calendar month (also *)
(* across a turn of the year and for February in a leap year; now =        *)
(* 2025-03-15 gives [2025-02-01, 2025-02-28]); this year = [Jan 1, now];   *)
(* last year = [Jan 1, Dec 31] of the previous year; last N days =         *)
(* [now - N days, now]; and list and summarize resolve a keyword alike.    *)

\* The day a YYYY-MM-DD text names, as an ordinal, and whether it names one
YearOf(v)  == v \div 10000
MonthOf(v) == (v \div 100) % 100
DayOf(v)   == v % 100
IsDate(v) ==
    /\ MonthOf(v) \in 1..12
    /\ DayOf(v) \in 1..DaysInMonth(YearOf(v), MonthOf(v))
OrdOf(v) == Ymd2Ord(YearOf(v), MonthOf(v), DayOf(v))

\* 2024-01-01 was a Monday
IsMonday(n) == (n - Ymd2Ord(2024, 1, 1)) % 7 = 0

\* The Monday of the week of day n
MondayOf(n) == CHOOSE d \in (n - 6)..n : IsMonday(d)

PairIs(kw, s, e) ==
    LET first == CHOOSE d \in (now - 30)..now :
                     IsDate(Fmt(d)) /\ DayOf(Fmt(d)) = 1
                     /\ \A x \in (d + 1)..now : DayOf(Fmt(x)) # 1
    IN
    CASE kw = "today"      -> OrdOf(s) = now /\ OrdOf(e) = now
      [] kw = "yesterday"  -> OrdOf(s) = now - 1 /\ OrdOf(e) = now - 1
      [] kw = "this week"  -> OrdOf(s) = MondayOf(now) /\ OrdOf(e) = now
      [] kw = "last week"  -> /\ OrdOf(s) = MondayOf(now) - 7
                              /\ OrdOf(e) = MondayOf(now) - 1
      [] kw = "this month" -> /\ DayOf(s) = 1 /\ OrdOf(e) = now
                              /\ OrdOf(s) <= now
                              /\ now - OrdOf(s) < DaysInMonth(YearOf(s), MonthOf(s))
      [] kw = "last month" -> /\ DayOf(s) = 1
                              /\ YearOf(s) = YearOf(e) /\ MonthOf(s) = MonthOf(e)
                              /\ DayOf(e) = DaysInMonth(YearOf(e), MonthOf(e))
                              /\ OrdOf(e) + 1 = first
      [] kw = "this year"  -> /\ MonthOf(s) = 1 /\ DayOf(s) = 1
                              /\ OrdOf(s) <= now
                              /\ now < Ymd2Ord(YearOf(s) + 1, 1, 1)
                              /\ OrdOf(e) = now
      [] kw = "last year"  -> /\ MonthOf(s) = 1 /\ DayOf(s) = 1
                              /\ MonthOf(e) = 12 /\ DayOf(e) = 31
                              /\ YearOf(s) = YearOf(e)
                              /\ OrdOf(e) < now
                              /\ now <= OrdOf(e) + 366
                              /\ now < Ymd2Ord(YearOf(e) + 2, 1, 1)
                              /\ now >= Ymd2Ord(YearOf(e) + 1, 1, 1)
      [] kw = "last 7 days"  -> OrdOf(s) = now - 7 /\ OrdOf(e) = now
      [] kw = "last 0 days"  -> OrdOf(s) = now /\ OrdOf(e) = now
      [] kw = "last 30 days" -> OrdOf(s) = now - 30 /\ OrdOf(e) = now
      [] OTHER -> s = NoDate /\ e = NoDate

C9_KeywordsResolveToTheNamedPairs ==
    last.op \in {"list", "summarize"} =>
        LET s == last.out.start
            e == last.out.end
            kw == LowerStrip(last.arg.date_range)
        IN  /\ PairIs(kw, s, e)
            /\ s # NoDate => (IsDate(s) /\ IsDate(e) /\ s <= e)
            /\ (now = Ymd2Ord(2025, 3, 15) /\ kw = "last month") =>
                  (s = 20250201 /\ e = 20250228)
            /\ ResolveList(last.arg.date_range, now)
                  = ResolveSummarize(last.arg.date_range, now)

\* summarize on 2024-03-04, a Monday, resolved "LAST MONTH" to the February
\* of a leap year.
C9_Witness ==
    /\ last.op = "summarize"
    /\ last.arg.date_range = "LAST MONTH"
    /\ now = Ymd2Ord(2024, 3, 4)
    /\ last.out.start = 20240201 /\ last.out.end = 20240229

----------------------------------------------------------------------------
(* Two update/delete invocations in flight at once.  Each is a coroutine   *)
(* with a connection of its own; it yields at every await, so the other    *)
(* may run between its SELECT and its UPDATE or DELETE, and between its    *)
(* commit and its second SELECT.  A SELECT is a transaction of its own     *)
(* (sqlite3 opens one only before a statement that writes); SQLite lets    *)
(* one connection write at a time and shows its rows to the others at      *)
(* commit, so "execute; commit" is one step here.                          *)

\* At most this many rows are inserted in a run of SpecConc
MaxConcRows == 2

Procs == {1, 2}

\* The invocations SpecConc starts
ConcCalls ==
    {[op |-> "delete", arg |-> [id |-> i]] : i \in 1..MaxConcRows} \cup
    {[op |-> "update",
      arg |-> [id |-> i, date |-> "", amount |-> am, category |-> "",
               subcategory |-> "", note |-> ""]]
        : i \in 1..MaxConcRows, am \in {0, 2500}}

Idle == procs = <<>>

AllDone == ~Idle /\ \A p \in Procs : procs[p].pc = "done"

AddAlone ==
    /\ Idle
    /\ seq < MaxConcRows
    /\ AddExpense("2025-03-14", 1000, "Food", "", "")
    /\ UNCHANGED <<now, procs, base>>

\* Two invocations arrive together
Start ==
    /\ Idle
    /\ \E c1 \in ConcCalls, c2 \in ConcCalls :
          procs' = [p \in Procs |->
                      [op |-> IF p = 1 THEN c1.op ELSE c2.op,
                       arg |-> IF p = 1 THEN c1.arg ELSE c2.arg,
                       pc |-> "select", found |-> {},
                       kind |-> "none", out |-> <<>>]]
    /\ base' = table
    /\ last' = NoCall
    /\ UNCHANGED <<table, seq, now, assigned, removed>>

\* cursor = await conn.execute("SELECT ... WHERE id = ?"); await fetchone(),
\* and the code up to the next await
Select(p) ==
    LET me == procs[p]
        expense == Lookup(table, me.arg.id)
        plan == IF me.op = "update" THEN UpdatePlan(me.arg) ELSE "write"
    IN  /\ ~Idle
        /\ me.pc = "select"
        /\ procs' = [procs EXCEPT ![p] =
              IF expense = {}
              THEN [me EXCEPT !.pc = "done", !.kind = "NotFound"]
              ELSE IF plan # "write"
              THEN [me EXCEPT !.pc = "done", !.kind = plan]
              ELSE [me EXCEPT !.pc = "write", !.found = expense]]
        /\ UNCHANGED <<table, seq, now, last, assigned, removed, base>>

\* await conn.execute("UPDATE ..." / "DELETE ..."); await conn.commit()
Write(p) ==
    LET me == procs[p]
    IN  /\ ~Idle
        /\ me.pc = "write"
        /\ IF me.op = "delete"
           THEN /\ table' = DeleteRows(table, me.arg.id)
                /\ removed' = removed \cup Ids(Lookup(table, me.arg.id))
                /\ procs' = [procs EXCEPT ![p] =
                      [me EXCEPT !.pc = "done", !.kind = "ok",
                                 !.out = CHOOSE r \in me.found : TRUE]]
           ELSE /\ table' = UpdateRows(table, me.arg.id, me.arg)
                /\ removed' = removed
                /\ procs' = [procs EXCEPT ![p] = [me EXCEPT !.pc = "reselect"]]
        /\ UNCHANGED <<seq, now, last, assigned, base>>

\* update_expense: the second SELECT, then "upd_id, ... = updated", which
\* raises TypeError when the row is gone (except Exception: "Error updating")
Reselect(p) ==
    LET me == procs[p]
        updated == Lookup(table, me.arg.id)
    IN  /\ ~Idle
        /\ me.pc = "reselect"
        /\ procs' = [procs EXCEPT ![p] =
              IF updated = {}
              THEN [me EXCEPT !.pc = "done", !.kind = "Exception",
                              !.out = [cause |-> "TypeError"]]
              ELSE [me EXCEPT !.pc = "done", !.kind = "ok",
                              !.out = [old |-> CHOOSE r \in me.found : TRUE,
                                       updated |-> CHOOSE r \in updated : TRUE]]]
        /\ UNCHANGED <<table, seq, now, last, assigned, removed, base>>

\* Both have returned
Finish ==
    /\ AllDone
    /\ procs' = <<>>
    /\ base' = {}
    /\ UNCHANGED <<table, seq, now, last, assigned, removed>>

NextConc ==
    \/ AddAlone
    \/ Start
    \/ \E p \in Procs : Select(p) \/ Write(p) \/ Reselect(p)
    \/ Finish

SpecConc == Init /\ [][NextConc]_vars

----------------------------------------------------------------------------
(* C4. When update and delete invocations on the same table run at once,   *)
(* the check and the write of each act as one step with respect to the     *)
(* other: the results returned and the final table are those of one of the *)
(* serial orders of the invocations.  In particular two delete(i) at once  *)
(* never both report success, and an update never reports on a row that a  *)
(* delete removed between its check and its write.                         *)

RunAlone(t, c) ==
    IF c.op = "update" THEN UpdateAlone(t, c.arg) ELSE DeleteAlone(t, c.arg)

SameAsSerial(p, q) ==
    LET r1 == RunAlone(base, procs[p])
        r2 == RunAlone(r1.table, procs[q])
    IN  /\ procs[p].kind = r1.kind /\ procs[p].out = r1.out
        /\ procs[q].kind = r2.kind /\ procs[q].out = r2.out
        /\ table = r2.table

C4_WritersAreSerializable ==
    AllDone => (SameAsSerial(1, 2) \/ SameAsSerial(2, 1))

----------------------------------------------------------------------------
(* list(limit = 0) over tables whose categories differ in case or by a     *)
(* suffix and whose dates lie on, before and after the bounds passed.      *)

\* At most this many rows are inserted in a run of SpecFilter
MaxFilterRows == 3

\* The rows SpecFilter inserts, as <<date, amount, category>>
FilterRows ==
    {<<"2025-02-10", 1000, "Food">>,
     <<"2025-03-14", 1000, "Food">>,
     <<"Mar 15, 2025", 1000, "Food">>,
     <<"2025-03-14", 1000, "food">>,
     <<"2025-03-14", 1000, "Foodie">>}

\* The filters SpecFilter passes, as <<date_range, start_date, end_date>>
FilterDates ==
    {<<"", "", "">>,
     <<"", "2025-03-14", "">>,
     <<"", "", "2025-03-14">>,
     <<"", "2025-02-10", "2025-03-14">>,
     <<"", "10 Feb 2025", "Mar 15, 2025">>,
     <<"", "Mar 15, 2025", "2025-02-10">>,
     <<"today", "", "">>,
     <<"this month", "", "">>,
     <<"last month", "", "">>}

AddFilterRow ==
    \E c \in FilterRows :
        /\ ~Answered
        /\ seq < MaxFilterRows
        /\ AddExpense(c[1], c[2], c[3], "", "")
        /\ UNCHANGED <<now, procs, base>>

ListAll ==
    \E category \in {"", "Food", "food", "Foo"}, d \in FilterDates :
        /\ ~Answered
        /\ ListExpenses(0, category, d[1], d[2], d[3])
        /\ UNCHANGED <<now, procs, base>>

NextFilter == AddFilterRow \/ ListAll \/ TakeAnswer

SpecFilter == Init /\ [][NextFilter]_vars

----------------------------------------------------------------------------
(* C11. For any table, the set of rows list(limit = 0) returns is exactly  *)
(* the set of stored rows that satisfy all the supplied predicates         *)
(* together: category equal to the given string (same case, whole string), *)
(* date >= the resolved start and date <= the resolved end, both bounds    *)
(* included; a predicate whose argument is empty excludes no row.          *)

\* The bound an explicit date or a keyword of FilterDates stands for on
\* 2025-03-15, written out
BoundOf(text) ==
    CASE text = "" -> NoDate
      [] text \in {"2025-03-14"} -> 20250314
      [] text \in {"Mar 15, 2025", "today"} -> 20250315
      [] text \in {"2025-02-10", "10 Feb 2025"} -> 20250210
      [] OTHER -> NoDate

ExpectedStart ==
    CASE last.arg.date_range = "this month" -> 20250301
      [] last.arg.date_range = "last month" -> 20250201
      [] last.arg.date_range = "today" -> 20250315
      [] OTHER -> BoundOf(last.arg.start_date)

ExpectedEnd ==
    CASE last.arg.date_range = "this month" -> 20250315
      [] last.arg.date_range = "last month" -> 20250228
      [] last.arg.date_range = "today" -> 20250315
      [] OTHER -> BoundOf(last.arg.end_date)

Satisfying ==
    {r \in table :
        /\ last.arg.category = "" \/ r.category = last.arg.category
        /\ ExpectedStart = NoDate \/ r.date >= ExpectedStart
        /\ ExpectedEnd = NoDate \/ r.date <= ExpectedEnd}

C11_ListReturnsExactlyTheMatches ==
    (last.op = "list" /\ last.arg.limit = 0) =>
        /\ last.kind \in {"ok", "Empty"}
        /\ last.kind = "ok" =>
              /\ Range(last.out.rows) = Satisfying
              /\ Len(last.out.rows) = Cardinality(Satisfying)
        /\ last.kind = "Empty" => Satisfying = {}

\* list(category = "Food") between 2025-02-10 and 2025-03-14 returns the rows
\* on both bounds and leaves out a later row, a "food" row and a "Foodie" row
C11_Witness ==
    /\ last.op = "list" /\ last.kind = "ok" /\ last.arg.limit = 0
    /\ last.arg.category = "Food"
    /\ ExpectedStart = 20250210 /\ ExpectedEnd = 20250314
    /\ \E r \in Range(last.out.rows) : r.date = 20250210
    /\ \E r \in Range(last.out.rows) : r.date = 20250314
    /\ \E r \in table : r.category \in {"food", "Foodie"}
    /\ Cardinality(table) > Len(last.out.rows)

----------------------------------------------------------------------------
(* update calls that fail: on ids that are not in the table, with no field *)
(* that counts, and with a date that does not parse next to other fields.  *)

\* At most this many rows are inserted in a run of SpecFailedUpdate
MaxFailRows == 2

AddPlain ==
    /\ seq < MaxFailRows
    /\ AddExpense("2025-03-14", 1000, "Food", "", "")
    /\ UNCHANGED <<now, procs, base>>

UpdateAnyCall ==
    \E id \in 1..(MaxFailRows + 1), date \in {"", "garbage", "Mar 15, 2025"},
       amount \in {-500, 0, 2500}, category \in {"", "Travel"} :
        /\ UpdateExpense(id, date, amount, category, "", "")
        /\ UNCHANGED <<now, procs, base>>

NextFailedUpdate == AddPlain \/ UpdateAnyCall

SpecFailedUpdate == Init /\ [][NextFailedUpdate]_vars

----------------------------------------------------------------------------
(* C12. An update call that does not return success changes nothing in the *)
(* table: on an id that is absent it returns NotFound whatever fields were *)
(* supplied; on an id that is present with no effective field (empty date, *)
(* category, subcategory and note, amount <= 0) it returns the distinct    *)
(* nothing-to-update outcome; on an id that is present with a date that    *)
(* cannot be parsed it returns the date error and applies none of the      *)
(* other supplied fields.                                                  *)

FailedUpdateFrame ==
    last'.op = "update" =>
        LET a == last'.arg
            present == \E r \in table : r.id = a.id
            noField == /\ a.date = "" /\ a.amount <= 0 /\ a.category = ""
                       /\ a.subcategory = "" /\ a.note = ""
        IN  /\ ~present => last'.kind = "NotFound"
            /\ (present /\ noField) => last'.kind = "NoFields"
            /\ (present /\ Unparseable(a.date)) => last'.kind = "DateError"
            /\ last'.kind \in {"NotFound", "NoFields", "DateError", "ok"}
            /\ last'.kind # "ok" =>
                  /\ table' = table
                  /\ seq' = seq /\ assigned' = assigned /\ removed' = removed

C12_FailedUpdateChangesNothing == [][FailedUpdateFrame]_vars

\* update(1, date = "garbage", amount = 25.00, category = "Travel") returned
\* the date error and row 1 still has its amount and category
C12_Witness ==
    /\ last.op = "update" /\ last.kind = "DateError"
    /\ last.arg.amount > 0 /\ last.arg.category = "Travel"
    /\ \E r \in table : /\ r.id = last.arg.id
                        /\ r.amount = 1000 /\ r.category = "Food"

----------------------------------------------------------------------------
(* C13. For any table and the same date_range, start_date, end_date and    *)
(* category evaluated at the same "now", summarize and list(limit = 0)     *)
(* select the same rows: the grand total of summarize is the total list    *)
(* prints, the sum of its group counts is the number of rows list returns, *)
(* and one returns its "No expenses found" outcome exactly when the other  *)
(* does.  Stated for the summarize call in last against list_expenses run  *)
(* on the same table with the same arguments.                              *)

\* What list_expenses(limit = 0) returns for the arguments of the summarize
\* call in last
ListOfSameArguments ==
    ListOutcome(table, now, 0, last.arg.category, last.arg.date_range,
                last.arg.start_date, last.arg.end_date)

C13_SummarizeSelectsWhatListSelects ==
    last.op = "summarize" =>
        /\ last.kind = "Empty" <=> ListOfSameArguments.kind = "Empty"
        /\ last.kind = "Exception" <=> ListOfSameArguments.kind = "Exception"
        /\ last.kind = "ok" <=> ListOfSameArguments.kind = "ok"
        /\ last.kind = "ok" =>
              /\ last.out.grand_total = ListOfSameArguments.out.total
              /\ SumOver(last.out.groups, "count", 1)
                    = Len(ListOfSameArguments.out.rows)
        /\ last.kind \in {"ok", "Empty"} =>
              /\ last.out.start = ListOfSameArguments.out.start
              /\ last.out.end = ListOfSameArguments.out.end

\* summarize(category = "Food", end_date = "2025-03-14") on three rows, two
\* of them selected, one on the last day of the period
C13_Witness ==
    /\ last.op = "summarize" /\ last.kind = "ok"
    /\ last.arg.category = "Food"
    /\ last.out.end = 20250314
    /\ Cardinality(table) = 3
    /\ SumOver(last.out.groups, "count", 1) = 2
    /\ Len(ListOfSameArguments.out.rows) = 2
    /\ last.out.grand_total > 0
============================================================================
